---------------------------- MODULE Spec2Model ----------------------------
(* Model of the MarketplaceBeatoken smart contract (src/src/lib.rs).        *)
(*                                                                          *)
(* The contract keeps one StateMap, tokens_for_sale, and exposes four       *)
(* entrypoints: place_for_sale, view_list_for_sale, withdraw and purchase.  *)
(* purchase hands control to another contract (host.invoke_contract); while *)
(* that call is in progress the invoked contract may call back into the     *)
(* marketplace, with the calling contract as sender.  A receive function    *)
(* that returns Err is rejected by the host and its state changes are       *)
(* discarded.                                                               *)
EXTENDS Integers, Sequences, FiniteSets, TLC

(* ---------------------------- bounds ---------------------------------- *)
MaxToken == 2
MaxDepth == 2

(* ------------------------ program constants --------------------------- *)
OWNER == 0
RECEIVER == 1
NFT_CONTRACT == 42
TOKEN1_PRICE == 1000

TokenIds == 1..MaxToken
Prices == {TOKEN1_PRICE, TOKEN1_PRICE + 1}
Accounts == {OWNER, RECEIVER}
Contracts == {NFT_CONTRACT, NFT_CONTRACT + 1}

(* Address: an account or a contract instance. *)
AddressAccount(a) == [kind |-> "Account", addr |-> a]
AddressContract(c) == [kind |-> "Contract", addr |-> c]
ContractSenders == {AddressContract(NFT_CONTRACT)}
Addresses == {AddressAccount(a) : a \in Accounts} \cup ContractSenders

(* The ways an invoked contract can fail. *)
CallContractError == {"AmountTooLarge", "MissingAccount", "MissingContract",
                      "MissingEntrypoint", "MessageFailed", "LogicReject", "Trap"}
CallAnswers == {"Ok"} \cup CallContractError

(* tokens_for_sale: the contract state.                                   *)
(* frames: the purchases whose outbound call is in progress, innermost    *)
(*         last.                                                          *)
(* last:   the most recent entrypoint invocation: its inputs, its result  *)
(*         ("Pending" while its outbound call is in progress), the state  *)
(*         it started from (pre), the outbound calls it issued and the    *)
(*         answer it got, and whether it came right after a purchase of   *)
(*         the same token by the same sender whose outbound call failed   *)
(*         (retry).                                                       *)
VARIABLES tokens_for_sale, frames, last

vars == <<tokens_for_sale, frames, last>>

(* ctx.owner(): the account that deployed the instance. *)
owner == OWNER

(* ------------------------- StateMap operations ------------------------ *)
(* The map is held as its set of <<key, value>> entries. *)
get(m, k) == {e[2] : e \in {x \in m : x[1] = k}}

is_some(o) == o # {}

insert_append(m, k, v) == m \cup {<<k, v>>}

insert(m, k, v) == {e \in m : e[1] # k} \cup {<<k, v>>}

remove_all(m, k) == {}

remove(m, k) == {e \in m : e[1] # k}

keys(m) == {e[1] : e \in m}

RECURSIVE iter(_)
iter(m) ==
    IF m = {} THEN <<>>
    ELSE LET k == CHOOSE x \in keys(m) : \A y \in keys(m) : x <= y
             e == CHOOSE x \in m : x[1] = k
         IN <<e>> \o iter(m \ {e})

(* ----------------------------- parameters ----------------------------- *)
(* A parameter is the sequence of fields the caller sent; reading a       *)
(* structure takes its fields from the front and fails when they run out. *)
Prefixes(s) == {SubSeq(s, 1, n) : n \in 0..Len(s)}

PlaceForSaleInputs == UNION {Prefixes(<<t, p>>) : t \in TokenIds, p \in Prices}
WithdrawInputs == UNION {Prefixes(<<t>>) : t \in TokenIds}
PurchaseInputs ==
    UNION {Prefixes(<<t, a[1], a[2], c>>) :
             t \in TokenIds, a \in {x \in Accounts \X Accounts : x[1] # x[2]}, c \in Contracts}

get_PlaceForSaleParameter(param) ==
    IF Len(param) >= 2
    THEN [ok |-> TRUE, token_id |-> param[1], price |-> param[2]]
    ELSE [ok |-> FALSE, token_id |-> 0, price |-> 0]

get_WithdrawParameter(param) ==
    IF Len(param) >= 1
    THEN [ok |-> TRUE, token_id |-> param[1]]
    ELSE [ok |-> FALSE, token_id |-> 0]

get_PurchaseParameter(param) ==
    IF Len(param) >= 4
    THEN [ok |-> TRUE, token_id |-> param[1], from |-> param[2], to |-> param[3], contract |-> param[4]]
    ELSE [ok |-> FALSE, token_id |-> 0, from |-> 0, to |-> 0, contract |-> 0]

(* ------------------------------ helpers ------------------------------- *)

matches_account_or_contract(sender, acc) == sender.kind = "Contract" \/ sender.addr = acc

matches_account_any_account(sender, acc) == sender.kind = "Account"

matches_account(sender, acc) == sender.kind = "Account" /\ sender.addr = acc

From_CallContractError_missing(e) ==
    IF e = "MissingContract" THEN "TokenNotFound" ELSE "InvokeContractError"

From_CallContractError(e) == "InvokeContractError"

(* A rejected receive function leaves the state as it was on entry. *)
reject_rollback(result, pre, post) == IF result = "Ok" THEN post ELSE pre

(* Senders that can reach the contract: anyone between transactions, only *)
(* contracts while an outbound call is in progress.                       *)
Senders == IF frames = <<>> THEN Addresses ELSE ContractSenders

NoCall == <<>>

Record(op, sender, param, result, pre, calls, answer, ret, retry) ==
    [op |-> op, sender |-> sender, param |-> param, result |-> result,
     pre |-> pre, calls |-> calls, answer |-> answer, ret |-> ret, retry |-> retry]

(* The invocation comes right after a purchase of the same token by the   *)
(* same sender that ended with InvokeContractError.                       *)
Retry(sender, param) ==
    /\ last.op = "purchase"
    /\ last.result = "InvokeContractError"
    /\ last.sender = sender
    /\ Len(param) >= 1
    /\ last.param[1] = param[1]

(* An entrypoint that runs to completion in one step. *)
Complete(op, sender, param, result, post, ret) ==
    /\ tokens_for_sale' = reject_rollback(result, tokens_for_sale, post)
    /\ last' = Record(op, sender, param, result, tokens_for_sale, NoCall, "None", ret,
                    Retry(sender, param))
    /\ UNCHANGED frames

(* ------------------------------- init --------------------------------- *)

State_empty_seeded == {<<1, TOKEN1_PRICE>>}

State_empty == {}

marketplace_init ==
    /\ tokens_for_sale = State_empty
    /\ frames = <<>>
    /\ last = Record("init", AddressAccount(owner), <<>>, "Ok", State_empty, NoCall, "None", <<>>,
                     FALSE)

Init == marketplace_init

(* --------------------------- place_for_sale --------------------------- *)
place_for_sale_body_owner_only(sender, own, param, m) ==
    LET p == get_PlaceForSaleParameter(param) IN
    IF ~p.ok THEN [result |-> "ParseParams", state |-> m]
    ELSE IF ~matches_account(sender, own) THEN [result |-> "Unauthorized", state |-> m]
    ELSE [result |-> "Ok", state |-> insert(m, p.token_id, p.price)]

place_for_sale_body(sender, own, param, m) ==
    LET p == get_PlaceForSaleParameter(param) IN
    IF ~p.ok THEN [result |-> "ParseParams", state |-> m]
    ELSE [result |-> "Ok", state |-> insert(m, p.token_id, p.price)]

marketplace_place_for_sale(sender, param) ==
    LET r == place_for_sale_body(sender, owner, param, tokens_for_sale) IN
    Complete("place_for_sale", sender, param, r.result, r.state, <<>>)

(* ------------------------- view_list_for_sale ------------------------- *)
ViewStateToken(e) == [id |-> e[1], price |-> e[2]]


view_list_for_sale_body_skip_first(m) ==
    LET it == iter(m) IN [i \in 1..(Len(it) - 1) |-> ViewStateToken(it[i + 1])]

view_list_for_sale_body(m) ==
    LET it == iter(m) IN [i \in 1..Len(it) |-> ViewStateToken(it[i])]

marketplace_view_list_for_sale(sender) ==
    Complete("view_list_for_sale", sender, <<>>, "Ok", tokens_for_sale,
             view_list_for_sale_body(tokens_for_sale))

(* ------------------------------ withdraw ------------------------------ *)


withdraw_body_no_auth(sender, own, param, m) ==
    LET p == get_WithdrawParameter(param) IN
    IF ~p.ok THEN [result |-> "ParseParams", state |-> m]
    ELSE IF ~is_some(get(m, p.token_id)) THEN [result |-> "TokenNotFound", state |-> m]
    ELSE [result |-> "Ok", state |-> remove(m, p.token_id)]

withdraw_body_auth_first(sender, own, param, m) ==
    LET p == get_WithdrawParameter(param) IN
    IF ~matches_account(sender, own) THEN [result |-> "Unauthorized", state |-> m]
    ELSE IF ~p.ok THEN [result |-> "ParseParams", state |-> m]
    ELSE IF ~is_some(get(m, p.token_id)) THEN [result |-> "TokenNotFound", state |-> m]
    ELSE [result |-> "Ok", state |-> remove(m, p.token_id)]

withdraw_body_no_remove(sender, own, param, m) ==
    LET p == get_WithdrawParameter(param) IN
    IF ~p.ok THEN [result |-> "ParseParams", state |-> m]
    ELSE IF ~matches_account(sender, own) THEN [result |-> "Unauthorized", state |-> m]
    ELSE IF ~is_some(get(m, p.token_id)) THEN [result |-> "TokenNotFound", state |-> m]
    ELSE [result |-> "Ok", state |-> m]

withdraw_body_unchecked(sender, own, param, m) ==
    LET p == get_WithdrawParameter(param) IN
    IF ~p.ok THEN [result |-> "ParseParams", state |-> m]
    ELSE IF ~matches_account(sender, own) THEN [result |-> "Unauthorized", state |-> m]
    ELSE [result |-> "Ok", state |-> remove(m, p.token_id)]

withdraw_body(sender, own, param, m) ==
    LET p == get_WithdrawParameter(param) IN
    IF ~p.ok THEN [result |-> "ParseParams", state |-> m]
    ELSE IF ~matches_account(sender, own) THEN [result |-> "Unauthorized", state |-> m]
    ELSE IF ~is_some(get(m, p.token_id)) THEN [result |-> "TokenNotFound", state |-> m]
    ELSE [result |-> "Ok", state |-> remove(m, p.token_id)]

marketplace_withdraw(sender, param) ==
    LET r == withdraw_body(sender, owner, param, tokens_for_sale) IN
    Complete("withdraw", sender, param, r.result, r.state, <<>>)

(* ------------------------------ purchase ------------------------------ *)
(* The checks made before the outbound call: the error they end with, or  *)
(* "Invoke" when the call is to be made.                                  *)

purchase_precall_priced(sender, own, param, m) ==
    LET purchase == get_PurchaseParameter(param) IN
    IF ~purchase.ok THEN "ParseParams"
    ELSE IF ~matches_account(sender, own) THEN "Unauthorized"
    ELSE IF get(m, purchase.token_id) # {TOKEN1_PRICE} THEN "TokenNotFound"
    ELSE "Invoke"

purchase_precall_unchecked(sender, own, param, m) ==
    LET purchase == get_PurchaseParameter(param) IN
    IF ~purchase.ok THEN "ParseParams"
    ELSE IF ~matches_account(sender, own) THEN "Unauthorized"
    ELSE "Invoke"

purchase_precall(sender, own, param, m) ==
    LET purchase == get_PurchaseParameter(param) IN
    IF ~purchase.ok THEN "ParseParams"
    ELSE IF ~matches_account(sender, own) THEN "Unauthorized"
    ELSE IF ~is_some(get(m, purchase.token_id)) THEN "TokenNotFound"
    ELSE "Invoke"

purchase_transfer_swapped(purchase) ==
    [token_id |-> purchase.token_id,
     amount |-> 1,
     from |-> AddressAccount(purchase.to),
     to |-> AddressAccount(purchase.from),
     data |-> <<>>]

purchase_transfer(purchase) ==
    [token_id |-> purchase.token_id,
     amount |-> 1,
     from |-> AddressAccount(purchase.from),
     to |-> AddressAccount(purchase.to),
     data |-> <<>>]

purchase_invoke(purchase) ==
    [contract |-> purchase.contract,
     parameter |-> <<purchase_transfer(purchase)>>,
     entrypoint |-> "transfer",
     amount |-> 0]

purchase_calls_before_lookup(outcome, purchase) ==
    IF outcome \in {"Invoke", "TokenNotFound"} THEN <<purchase_invoke(purchase)>> ELSE <<>>

(* The outbound calls the purchase issues, given how its checks ended. *)
purchase_calls(outcome, purchase) ==
    IF outcome = "Invoke" THEN <<purchase_invoke(purchase)>> ELSE <<>>

(* The state the purchase holds while its outbound call is in progress. *)
purchase_state_at_call(m, purchase) == m


purchase_postcall_no_remove(purchase, answer, m) ==
    IF answer # "Ok" THEN [result |-> From_CallContractError(answer), state |-> m]
    ELSE [result |-> "Ok", state |-> m]

purchase_postcall_ignoring_answer(purchase, answer, m) ==
    [result |-> "Ok", state |-> remove(m, purchase.token_id)]

(* What the purchase does once the outbound call has answered. *)
purchase_postcall(purchase, answer, m) ==
    IF answer # "Ok" THEN [result |-> From_CallContractError(answer), state |-> m]
    ELSE [result |-> "Ok", state |-> remove(m, purchase.token_id)]

(* A purchase that ends before any outbound call. *)
marketplace_purchase_reject(sender, param) ==
    LET outcome == purchase_precall(sender, owner, param, tokens_for_sale)
        purchase == get_PurchaseParameter(param) IN
    /\ outcome # "Invoke"
    /\ tokens_for_sale' = reject_rollback(outcome, tokens_for_sale, tokens_for_sale)
    /\ last' = Record("purchase", sender, param, outcome, tokens_for_sale,
                      purchase_calls(outcome, purchase), "None", <<>>, Retry(sender, param))
    /\ UNCHANGED frames

(* A purchase that passes its checks and hands control to the registry. *)
marketplace_purchase_call(sender, param) ==
    LET outcome == purchase_precall(sender, owner, param, tokens_for_sale)
        purchase == get_PurchaseParameter(param) IN
    /\ outcome = "Invoke"
    /\ Len(frames) < MaxDepth
    /\ frames' = Append(frames, [sender |-> sender, param |-> param, purchase |-> purchase,
                                 pre |-> tokens_for_sale,
                                 calls |-> purchase_calls(outcome, purchase),
                                 retry |-> Retry(sender, param)])
    /\ tokens_for_sale' = purchase_state_at_call(tokens_for_sale, purchase)
    /\ last' = Record("purchase", sender, param, "Pending", tokens_for_sale,
                      purchase_calls(outcome, purchase), "None", <<>>, Retry(sender, param))

(* The outbound call of the innermost purchase answers. *)
marketplace_purchase_return(answer) ==
    /\ frames # <<>>
    /\ LET f == frames[Len(frames)]
           r == purchase_postcall(f.purchase, answer, tokens_for_sale) IN
       /\ tokens_for_sale' = reject_rollback(r.result, f.pre, r.state)
       /\ frames' = SubSeq(frames, 1, Len(frames) - 1)
       /\ last' = Record("purchase", f.sender, f.param, r.result, f.pre, f.calls, answer, <<>>,
                         f.retry)

Next ==
    \/ \E sender \in Senders, param \in PlaceForSaleInputs : marketplace_place_for_sale(sender, param)
    \/ \E sender \in Senders : marketplace_view_list_for_sale(sender)
    \/ \E sender \in Senders, param \in WithdrawInputs : marketplace_withdraw(sender, param)
    \/ \E sender \in Senders, param \in PurchaseInputs : marketplace_purchase_reject(sender, param)
    \/ \E sender \in Senders, param \in PurchaseInputs : marketplace_purchase_call(sender, param)
    \/ \E answer \in CallAnswers : marketplace_purchase_return(answer)

Spec == Init /\ [][Next]_vars

TypeOK ==
    /\ tokens_for_sale \subseteq (TokenIds \X Prices)
    /\ Len(frames) <= MaxDepth

(* ============================ properties ============================== *)
OwnerAddress == [kind |-> "Account", addr |-> OWNER]

ReceiverAddress == [kind |-> "Account", addr |-> RECEIVER]

LastPurchase(n) == last.op = "purchase" /\ Len(last.param) = n

ListedIn(m, t) == \E e \in m : e[1] = t

Without(m, t) == {e \in m : e[1] # t}

ExpectedCall(param) ==
    [contract |-> param[4],
     parameter |-> <<[token_id |-> param[1], amount |-> 1,
                      from |-> [kind |-> "Account", addr |-> param[2]],
                      to |-> [kind |-> "Account", addr |-> param[3]],
                      data |-> <<>>]>>,
     entrypoint |-> "transfer",
     amount |-> 0]

(* C1: a purchase never changes the state in the step that issues its     *)
(* outbound call, the token of every purchase whose call is in progress   *)
(* was listed when the call was issued, and whenever a purchase has left  *)
(* a token that was listed when it started unlisted, its outbound call    *)
(* was issued and answered with success.                                   *)
C1_RemovalOnlyAfterSuccess ==
    /\ [][Len(frames') > Len(frames) => tokens_for_sale' = tokens_for_sale]_vars
    /\ [](\A i \in 1..Len(frames) : ListedIn(frames[i].pre, frames[i].purchase.token_id))
    /\ []((last.op = "purchase" /\ \E e \in last.pre : ~ListedIn(tokens_for_sale, e[1]))
            => (last.answer = "Ok" /\ Len(last.calls) = 1 /\ last.result = "Ok"))

C1_Witness ==
    /\ LastPurchase(4)
    /\ last.answer = "Ok"
    /\ ListedIn(last.pre, last.param[1])
    /\ ~ListedIn(tokens_for_sale, last.param[1])

(* C2: a purchase by the owner of a listed token whose outbound call      *)
(* fails, for whatever reason, ends with InvokeContractError and leaves   *)
(* the state equal to the state the purchase started from: the token is   *)
(* listed at the same price and no other entry differs.                    *)
C2_FailedCallLeavesLedger ==
    (LastPurchase(4) /\ last.sender = OwnerAddress /\ last.answer \in CallContractError)
        => /\ last.result = "InvokeContractError"
           /\ tokens_for_sale = last.pre
           /\ ListedIn(tokens_for_sale, last.param[1])

C2_Witness ==
    /\ LastPurchase(4)
    /\ last.param[1] = 1
    /\ last.answer = "MissingContract"
    /\ last.result = "InvokeContractError"
    /\ last.pre = {<<1, TOKEN1_PRICE>>, <<2, TOKEN1_PRICE + 1>>}
    /\ tokens_for_sale = last.pre

(* C3: withdraw and purchase with well-formed parameters from a sender    *)
(* other than the owner end with Unauthorized, leave the state unchanged  *)
(* and issue no outbound call, whether or not the token is listed.        *)
C3_UnauthorizedFirst ==
    ((\/ last.op = "withdraw" /\ Len(last.param) = 1
      \/ last.op = "purchase" /\ Len(last.param) = 4)
     /\ last.sender # OwnerAddress)
        => /\ last.result = "Unauthorized"
           /\ tokens_for_sale = last.pre
           /\ last.calls = <<>>

C3_Witness ==
    /\ LastPurchase(4)
    /\ last.sender = ReceiverAddress
    /\ ~ListedIn(last.pre, last.param[1])
    /\ last.pre # {}
    /\ last.result = "Unauthorized"

C5_ExactlyOneCall ==
    /\ \A i \in 1..Len(frames) : Len(frames[i].calls) = 1
    /\ (LastPurchase(4) /\ last.sender = OwnerAddress /\ ListedIn(last.pre, last.param[1]))
          => Len(last.calls) = 1
    /\ (last.op = "purchase" /\ last.answer # "None") => Len(last.calls) = 1
    /\ (last.op = "purchase" /\ last.result \in {"ParseParams", "Unauthorized", "TokenNotFound"})
          => (last.calls = <<>> /\ last.answer = "None")
    /\ last.op \in {"place_for_sale", "withdraw", "view_list_for_sale"} => last.calls = <<>>

C5_Witness ==
    /\ LastPurchase(4)
    /\ last.answer = "Trap"
    /\ last.result = "InvokeContractError"
    /\ Len(last.calls) = 1

(* C6: the outbound call of a purchase goes to the requested contract's   *)
(* transfer entrypoint with zero amount and carries exactly one transfer: *)
(* the requested token, amount 1, from the from account to the to         *)
(* account, with empty additional data.                                    *)
C6_CallContents ==
    /\ \A i \in 1..Len(frames) : frames[i].calls = <<ExpectedCall(frames[i].param)>>
    /\ (last.op = "purchase" /\ last.calls # <<>>) => last.calls = <<ExpectedCall(last.param)>>

C6_Witness ==
    /\ Len(frames) = 1
    /\ frames[1].param = <<2, RECEIVER, OWNER, NFT_CONTRACT + 1>>
    /\ frames[1].calls[1].contract = NFT_CONTRACT + 1
    /\ frames[1].calls[1].parameter[1].from.addr = RECEIVER

(* C7: a withdraw by the owner of a token that is not listed ends with    *)
(* TokenNotFound and leaves the state unchanged.                           *)
C7_WithdrawUnlisted ==
    (last.op = "withdraw" /\ Len(last.param) = 1 /\ last.sender = OwnerAddress
     /\ ~ListedIn(last.pre, last.param[1]))
        => (last.result = "TokenNotFound" /\ tokens_for_sale = last.pre)

C7_Witness ==
    /\ last.op = "withdraw"
    /\ last.sender = OwnerAddress
    /\ last.param = <<1>>
    /\ last.pre = {<<2, TOKEN1_PRICE>>}
    /\ last.result = "TokenNotFound"

(* C8: a purchase by the owner of a token that is not listed ends with    *)
(* TokenNotFound and leaves the state unchanged; the registry is never    *)
(* asked, so its answer cannot matter.                                     *)
C8_PurchaseUnlisted ==
    (LastPurchase(4) /\ last.sender = OwnerAddress /\ ~ListedIn(last.pre, last.param[1]))
        => /\ last.result = "TokenNotFound"
           /\ tokens_for_sale = last.pre
           /\ last.calls = <<>>
           /\ last.answer = "None"

C8_Witness ==
    /\ LastPurchase(4)
    /\ last.sender = OwnerAddress
    /\ last.param[1] = 1
    /\ last.pre = {<<2, TOKEN1_PRICE>>}
    /\ last.result = "TokenNotFound"

(* C9: the state never holds two prices for one token, and a              *)
(* place_for_sale of (t, p2), whether it directly follows a               *)
(* place_for_sale of (t, p1) or starts from any other state, leaves       *)
(* exactly the entry (t, p2) for t.                                        *)
C9_RelistOverwrites ==
    /\ [](\A t \in TokenIds : Cardinality({e \in tokens_for_sale : e[1] = t}) <= 1)
    /\ []((last.op = "place_for_sale" /\ last.result = "Ok")
            => {e \in tokens_for_sale : e[1] = last.param[1]} = {<<last.param[1], last.param[2]>>})
    /\ [][(/\ last.op = "place_for_sale" /\ last.result = "Ok"
           /\ last'.op = "place_for_sale" /\ last'.result = "Ok"
           /\ last'.param[1] = last.param[1])
            => {e \in tokens_for_sale' : e[1] = last.param[1]} = {<<last.param[1], last'.param[2]>>}]_vars

C9_Witness ==
    /\ last.op = "place_for_sale"
    /\ last.param = <<1, TOKEN1_PRICE + 1>>
    /\ <<1, TOKEN1_PRICE>> \in last.pre
    /\ {e \in tokens_for_sale : e[1] = 1} = {<<1, TOKEN1_PRICE + 1>>}

(* C10: place_for_sale with well-formed parameters ends with success for  *)
(* every sender and every prior state, and the state afterwards is the    *)
(* prior state with the token mapped to the price: no entry of another    *)
(* token is created, changed or removed.                                   *)
C10_PlaceForSaleUpsert ==
    (last.op = "place_for_sale" /\ Len(last.param) = 2)
        => /\ last.result = "Ok"
           /\ tokens_for_sale =
                Without(last.pre, last.param[1]) \cup {<<last.param[1], last.param[2]>>}

C10_Witness ==
    /\ last.op = "place_for_sale"
    /\ last.sender = ReceiverAddress
    /\ last.param = <<1, TOKEN1_PRICE + 1>>
    /\ last.pre = {<<1, TOKEN1_PRICE>>, <<2, TOKEN1_PRICE>>}
    /\ tokens_for_sale = {<<1, TOKEN1_PRICE + 1>>, <<2, TOKEN1_PRICE>>}

(* C11: a withdraw by the owner of a listed token ends with success and   *)
(* the state afterwards is the prior state without that token's entry:    *)
(* no other entry changes.                                                 *)
C11_WithdrawListed ==
    (last.op = "withdraw" /\ Len(last.param) = 1 /\ last.sender = OwnerAddress
     /\ ListedIn(last.pre, last.param[1]))
        => /\ last.result = "Ok"
           /\ tokens_for_sale = Without(last.pre, last.param[1])
           /\ \A e \in last.pre : e[1] # last.param[1] => e \in tokens_for_sale

C11_Witness ==
    /\ last.op = "withdraw"
    /\ last.sender = OwnerAddress
    /\ last.param = <<1>>
    /\ last.pre = {<<1, TOKEN1_PRICE>>, <<2, TOKEN1_PRICE + 1>>}
    /\ last.result = "Ok"
    /\ tokens_for_sale = {<<2, TOKEN1_PRICE + 1>>}

(* C12: the state produced by initialization holds no entry, and a        *)
(* view_list_for_sale that directly follows initialization returns the    *)
(* empty sequence.                                                         *)
C12_InitEmpty ==
    /\ [](last.op = "init" => (tokens_for_sale = {} /\ Cardinality(tokens_for_sale) = 0))
    /\ [][(last.op = "init" /\ last'.op = "view_list_for_sale")
            => (last'.result = "Ok" /\ last'.ret = <<>>)]_vars

C12_Witness ==
    /\ last.op = "init"
    /\ frames = <<>>
    /\ tokens_for_sale = {}
    /\ view_list_for_sale_body(tokens_for_sale) = <<>>

(* C13: view_list_for_sale ends with success for every sender, returns    *)
(* each entry of the state once and nothing else, and leaves the state    *)
(* unchanged.                                                              *)
C13_ViewReturnsLedger ==
    last.op = "view_list_for_sale"
        => /\ last.result = "Ok"
           /\ {<<last.ret[i].id, last.ret[i].price>> : i \in 1..Len(last.ret)} = last.pre
           /\ Len(last.ret) = Cardinality(last.pre)
           /\ tokens_for_sale = last.pre

C13_Witness ==
    /\ last.op = "view_list_for_sale"
    /\ last.sender = ReceiverAddress
    /\ last.pre = {<<1, TOKEN1_PRICE>>, <<2, TOKEN1_PRICE + 1>>}
    /\ Len(last.ret) = 2
    /\ tokens_for_sale = last.pre

(* C14: place_for_sale, withdraw and purchase called with a parameter too *)
(* short to read end with ParseParams, leave the state unchanged and      *)
(* issue no outbound call, whoever the sender is and whatever is listed.  *)
C14_ParseErrorNoEffect ==
    (\/ last.op = "place_for_sale" /\ Len(last.param) < 2
     \/ last.op = "withdraw" /\ Len(last.param) < 1
     \/ last.op = "purchase" /\ Len(last.param) < 4)
        => /\ last.result = "ParseParams"
           /\ tokens_for_sale = last.pre
           /\ last.calls = <<>>
           /\ last.answer = "None"

C14_Witness ==
    /\ last.op = "withdraw"
    /\ last.param = <<>>
    /\ last.sender = ReceiverAddress
    /\ last.pre # {}
    /\ last.result = "ParseParams"

(* C15 (as stated): while the outbound call of a purchase is in progress  *)
(* no invocation changes the state, so when the call answers with success *)
(* the token's entry is the one the listing check found and the state     *)
(* afterwards is the purchase's start state without that entry.           *)
C15_Original ==
    /\ [][(Len(frames) > 0 /\ Len(frames') = Len(frames))
            => tokens_for_sale' = tokens_for_sale]_vars
    /\ [][(Len(frames') < Len(frames) /\ last'.answer = "Ok")
            => /\ {e \in tokens_for_sale : e[1] = last'.param[1]}
                    = {e \in last'.pre : e[1] = last'.param[1]}
               /\ tokens_for_sale' = Without(last'.pre, last'.param[1])]_vars

(* C15 (amended): while the outbound call of a purchase is in progress    *)
(* the only invocations that change the state are successful              *)
(* place_for_sale callbacks, each upserting its own token; the purchased  *)
(* token therefore stays listed, possibly at another price, and when the  *)
(* call answers with success the purchase removes that token's entry as   *)
(* it then stands and no other entry.                                      *)
C15_CallbacksOnlyList ==
    /\ [][(Len(frames) > 0 /\ Len(frames') = Len(frames) /\ tokens_for_sale' # tokens_for_sale)
            => /\ last'.op = "place_for_sale"
               /\ last'.result = "Ok"
               /\ last'.sender.kind = "Contract"
               /\ tokens_for_sale' = Without(tokens_for_sale, last'.param[1])
                                        \cup {<<last'.param[1], last'.param[2]>>}]_vars
    /\ [](\A i \in 1..Len(frames) : ListedIn(tokens_for_sale, frames[i].purchase.token_id))
    /\ [][(Len(frames') < Len(frames) /\ last'.answer = "Ok")
            => /\ ListedIn(tokens_for_sale, last'.param[1])
               /\ ~ListedIn(tokens_for_sale', last'.param[1])
               /\ \A e \in tokens_for_sale : e[1] # last'.param[1] => e \in tokens_for_sale'
               /\ tokens_for_sale' \subseteq tokens_for_sale]_vars

C15_Witness ==
    /\ LastPurchase(4)
    /\ last.result = "Ok"
    /\ last.param[1] = 1
    /\ last.pre = {<<1, TOKEN1_PRICE>>}
    /\ tokens_for_sale = {<<2, TOKEN1_PRICE + 1>>}

(* The entries the state holds for token t. *)
EntriesOf(m, t) == {e \in m : e[1] = t}

(* The step is a place_for_sale of t that ended with success. *)
ListStep(t) ==
    /\ last'.op = "place_for_sale" /\ last'.result = "Ok" /\ last'.param[1] = t
    /\ EntriesOf(tokens_for_sale', t) = {<<t, last'.param[2]>>}

(* The step is a withdraw of t, or the end of a purchase of t, by the     *)
(* owner that ended with success and left t unlisted.                      *)
UnlistStep(t) ==
    /\ last'.op \in {"withdraw", "purchase"} /\ last'.result = "Ok"
    /\ last'.sender = OwnerAddress /\ last'.param[1] = t
    /\ EntriesOf(tokens_for_sale, t) # {} /\ EntriesOf(tokens_for_sale', t) = {}

(* The step ends a purchase whose outbound call failed: the invocation is *)
(* rejected and t is as it was when that purchase started.                *)
FailedPurchaseStep(t) ==
    /\ Len(frames') < Len(frames)
    /\ last'.op = "purchase" /\ last'.result = "InvokeContractError"
    /\ EntriesOf(tokens_for_sale', t) = EntriesOf(last'.pre, t)

(* C16: a token's entry changes only in a place_for_sale of that token    *)
(* (unlisted to listed, or listed to listed at the new price) or in a     *)
(* successful withdraw or purchase of that token by the owner (listed to  *)
(* unlisted).  Failed withdraws, purchases rejected before their call,    *)
(* views and invocations on other tokens leave it alone, and a purchase   *)
(* whose outbound call failed leaves it as it was when that purchase      *)
(* started.                                                                *)
C16_TokenTransitions ==
    /\ [][\A t \in TokenIds :
            EntriesOf(tokens_for_sale', t) # EntriesOf(tokens_for_sale, t)
               => (ListStep(t) \/ UnlistStep(t) \/ FailedPurchaseStep(t))]_vars
    /\ []((last.op = "purchase" /\ last.result \notin {"Ok", "Pending"})
            => tokens_for_sale = last.pre)
    /\ []((last.op \in {"withdraw", "view_list_for_sale"} /\ last.result # "Ok")
            => tokens_for_sale = last.pre)

C16_Witness ==
    /\ last.op = "withdraw"
    /\ last.result = "Ok"
    /\ last.param = <<1>>
    /\ last.pre = {<<1, TOKEN1_PRICE + 1>>, <<2, TOKEN1_PRICE>>}
    /\ tokens_for_sale = {<<2, TOKEN1_PRICE>>}

(* The whole purchase run from state m with the registry answering        *)
(* answer: its result, the calls it issues and the state it leaves.       *)
PurchaseOn(sender, param, answer, m) ==
    LET outcome == purchase_precall(sender, owner, param, m)
        purchase == get_PurchaseParameter(param)
        r == purchase_postcall(purchase, answer, purchase_state_at_call(m, purchase))
    IN IF outcome # "Invoke"
       THEN [result |-> outcome, calls |-> purchase_calls(outcome, purchase), state |-> m]
       ELSE [result |-> r.result, calls |-> purchase_calls(outcome, purchase),
             state |-> reject_rollback(r.result, m, r.state)]

(* The state m with the price of t replaced by p. *)
Repriced(m, t, p) == Without(m, t) \cup {<<t, p>>}

(* C17: the outcome of a purchase does not depend on the listed price:    *)
(* for every finished purchase of a token listed when it started, the     *)
(* same request from the same sender with the same registry answer, run   *)
(* from the start state with any other price recorded for that token,     *)
(* gives the same result, issues the same outbound calls and leaves the   *)
(* token listed or unlisted alike, with the other entries equal.          *)
C17_PriceIndependent ==
    (LastPurchase(4) /\ last.result # "Pending" /\ ListedIn(last.pre, last.param[1]))
        => \A p \in Prices :
             LET t == last.param[1]
                 here == PurchaseOn(last.sender, last.param, last.answer, last.pre)
                 other == PurchaseOn(last.sender, last.param, last.answer,
                                     Repriced(last.pre, t, p))
             IN /\ other.result = last.result
                /\ other.calls = last.calls
                /\ ListedIn(other.state, t) = ListedIn(tokens_for_sale, t)
                /\ Without(other.state, t) = Without(here.state, t)
                /\ here.result = last.result

C17_Witness ==
    /\ LastPurchase(4)
    /\ last.result = "Ok"
    /\ last.param[1] = 1
    /\ last.pre = {<<1, TOKEN1_PRICE + 1>>, <<2, TOKEN1_PRICE>>}
    /\ PurchaseOn(last.sender, last.param, last.answer, Repriced(last.pre, 1, TOKEN1_PRICE)).result = "Ok"

(* C18: withdraw and purchase pass their sender check only for the        *)
(* account that owns the instance.  A contract sender, the registry       *)
(* calling back during a purchase's outbound call included, gets          *)
(* Unauthorized when its parameter parses, issues no outbound call and    *)
(* removes no listing.                                                     *)
C18_ContractsRejected ==
    /\ []((last.op \in {"withdraw", "purchase"} /\ last.result \in {"Ok", "Pending", "TokenNotFound", "InvokeContractError"})
            => (last.sender.kind = "Account" /\ last.sender.addr = OWNER))
    /\ [](\A i \in 1..Len(frames) : frames[i].sender = OwnerAddress)
    /\ []((/\ \/ last.op = "withdraw" /\ Len(last.param) = 1
              \/ last.op = "purchase" /\ Len(last.param) = 4
           /\ last.sender.kind = "Contract")
            => (last.result = "Unauthorized" /\ tokens_for_sale = last.pre /\ last.calls = <<>>))
    /\ [][(Len(frames) > 0 /\ Len(frames') >= Len(frames))
            => \A e \in tokens_for_sale : ListedIn(tokens_for_sale', e[1])]_vars

C18_Witness ==
    /\ Len(frames) = 1
    /\ last.op = "withdraw"
    /\ last.sender = [kind |-> "Contract", addr |-> NFT_CONTRACT]
    /\ frames[1].purchase.contract = NFT_CONTRACT
    /\ last.param = <<frames[1].purchase.token_id>>
    /\ ListedIn(last.pre, last.param[1])
    /\ last.result = "Unauthorized"
    /\ tokens_for_sale = last.pre

(* C19: a purchase whose outbound call failed blocks nothing: the same    *)
(* sender's next purchase of that token passes all checks again and       *)
(* issues its call, and when the registry now answers with success it     *)
(* ends with success and leaves the token unlisted; a withdraw of the     *)
(* token issued instead ends with success and removes only its entry.     *)
C19_RetryAfterFailure ==
    /\ (LastPurchase(4) /\ last.retry)
          => /\ last.result \in {"Pending", "Ok", "InvokeContractError"}
             /\ Len(last.calls) = 1
             /\ ListedIn(last.pre, last.param[1])
    /\ (LastPurchase(4) /\ last.retry /\ last.answer = "Ok")
          => (last.result = "Ok" /\ ~ListedIn(tokens_for_sale, last.param[1]))
    /\ (last.op = "withdraw" /\ last.retry)
          => /\ last.result = "Ok"
             /\ ListedIn(last.pre, last.param[1])
             /\ tokens_for_sale = Without(last.pre, last.param[1])

C19_Witness ==
    /\ LastPurchase(4)
    /\ last.retry
    /\ last.sender = OwnerAddress
    /\ last.answer = "Ok"
    /\ last.result = "Ok"
    /\ ListedIn(last.pre, last.param[1])
    /\ ~ListedIn(tokens_for_sale, last.param[1])

====
